---------------------------- MODULE Spec2Model ----------------------------
(***************************************************************************)
(* Model of the two screens of the review-management application:          *)
(*   - src/src/components/sidebar.tsx                (Sidebar)             *)
(*   - src/src/components/business/dashboard/page.tsx (BusinessDashboard   *)
(*     and its access guard useSubscriptionStatus)                         *)
(*                                                                         *)
(* Conventions                                                             *)
(*   - Instants are epoch milliseconds (Date.getTime()).                   *)
(*   - A stored timestamp field is absent, a store Timestamp object (it    *)
(*     has toDate), or a plain object that only carries `seconds`.         *)
(*   - A rating is a number of half stars (rating 4.5 is 9): these are the *)
(*     numbers whose sums a double holds exactly.  An average is kept in   *)
(*     tenths (4.3 is 43), the result of toFixed(1).                       *)
(*   - Quotients are rounded as the double arithmetic of the code rounds   *)
(*     them (53 significant bits, nearest, ties to even).                  *)
(*   - A JavaScript number that may be NaN is [nan, halves] or             *)
(*     [nan, tenths].                                                      *)
(*   - React state updates issued in one synchronous stretch of a handler  *)
(*     are committed together (automatic batching), so each stretch of a   *)
(*     handler between two awaits is one action.                           *)
(***************************************************************************)
EXTENDS Integers, Sequences, FiniteSets, TLC

VARIABLES
    now,            \* the clock: what `new Date()` returns
    users,          \* document store: users/{uid}
    currentUser,    \* the auth service's current user
    authEvents,     \* number of auth-state callbacks delivered so far
    \* ---- Sidebar (sidebar.tsx)
    pathname,       \* location.pathname
    open,           \* mobile sheet open flag
    settingsOpen,   \* "Settings" expanded flag
    trialInfo,      \* useState at sidebar.tsx:29
    subscription,   \* useState at sidebar.tsx:35
    sbPending,      \* checkUserStatus calls awaiting getDoc
    sbLast,         \* how the checkUserStatus call that finished last ended
    \* ---- Dashboard (page.tsx)
    loading,        \* useState at page.tsx:85
    businessName,   \* useState at page.tsx:84
    reviews,        \* useState at page.tsx:86
    stats,          \* useState at page.tsx:87
    navRequests,    \* navigate(...) calls issued, each with the auth callback that issued it
    guardPending,   \* checkSubscription calls awaiting getDoc
    guardLast,      \* hasActiveAccess of the guard call that finished last
    dashPending,    \* dashboard handlers awaiting getDoc / getDocs
    dashLast        \* how the dashboard handler that finished last ended

envVars  == <<now, users, currentUser, authEvents>>
sideVars == <<pathname, open, settingsOpen, trialInfo, subscription, sbPending, sbLast>>
sideRest == <<open, trialInfo, subscription, sbPending, sbLast>>
dashVars == <<loading, businessName, reviews, stats, navRequests,
              guardPending, guardLast, dashPending, dashLast>>
vars     == <<envVars, sideVars, dashVars>>

----------------------------------------------------------------------------
(* Bounds of the model *)

MaxAuthEvents == 2      \* auth-state callbacks per behaviour
MaxReviews    == 3      \* documents in a fetched review collection

----------------------------------------------------------------------------
(* Values *)

Uids   == {"u1", "u2"}
NoUser == "null"

MS_PER_SECOND == 1000
MS_PER_DAY    == 1000 * 60 * 60 * 24        \* sidebar.tsx:78, :99

\* Date | null
NullDate     == [isNull |-> TRUE,  time |-> 0]
DateOf(ms)   == [isNull |-> FALSE, time |-> ms]

\* A stored timestamp field
NoField            == [kind |-> "absent",    seconds |-> 0, nanoseconds |-> 0]
Timestamp(s, ns)   == [kind |-> "timestamp", seconds |-> s, nanoseconds |-> ns]
RawSeconds(s)      == [kind |-> "raw",       seconds |-> s, nanoseconds |-> 0]

\* Timestamp.toDate() of the store client: new Date(toMillis()), where
\* toMillis() is seconds * 1000 + nanoseconds / 1e6 and the Date constructor
\* drops the fraction of a millisecond (towards zero)
toDate(ts) ==
    LET whole == ts.seconds * MS_PER_SECOND + ts.nanoseconds \div 1000000
        part  == ts.nanoseconds % 1000000
    IN  DateOf(IF whole < 0 /\ part > 0 THEN whole + 1 ELSE whole)

\* variant rounding down
Ceil_Floor(a, b) == a \div b

\* Math.ceil(a / b) for b > 0
Ceil(a, b) == -((-a) \div b)

RECURSIVE Log2Up(_, _)
\* for a >= b > 0: the e with 2^e <= a / b < 2^(e+1)
Log2Up(a, b) == IF a >= 2 * b THEN 1 + Log2Up(a, 2 * b) ELSE 0

RECURSIVE Log2Down(_, _)
\* for 0 < a < b: the j with 2^(-j) <= a / b < 2^(1-j)
Log2Down(a, b) == IF 2 * a >= b THEN 1 ELSE 1 + Log2Down(2 * a, b)

\* the binary exponent of a / b (a, b > 0): 2^e <= a / b < 2^(e+1)
Exponent(a, b) == IF a >= b THEN Log2Up(a, b) ELSE -Log2Down(a, b)

RECURSIVE ShiftMod(_, _, _)
\* (a * 2^k) mod b
ShiftMod(a, k, b) == IF k = 0 THEN a % b ELSE ShiftMod((2 * a) % b, k - 1, b)

RECURSIVE Pow2(_)
\* 2^k
Pow2(k) == IF k = 0 THEN 1 ELSE 2 * Pow2(k - 1)

\* the double a / b (a, b > 0) keeps 53 significant bits of the quotient:
\* r / b is the part of the last kept place that the quotient has beyond
\* them.  The double is the quotient itself when r = 0, lies below it by
\* that part when 2r < b, and above it otherwise
DoubleResidue(a, b) == ShiftMod(a, 52 - Exponent(a, b), b)

\* (a / b).toFixed(1) for the double a / b (a >= 0, b > 0), in tenths: the
\* n with n / 10 nearest to the double, the larger n of two
toFixed1Abs(a, b) ==
    LET n    == (10 * a) \div b
        rest == (10 * a) % b
    IN  IF 2 * rest < b THEN n
        ELSE IF 2 * rest > b THEN n + 1
        ELSE IF DoubleResidue(a, b) # 0 /\ 2 * DoubleResidue(a, b) < b THEN n
        ELSE n + 1

\* (a / b).toFixed(1), b > 0: a negative number is formatted as "-" and
\* its absolute value
toFixed1(a, b) == IF a < 0 THEN -toFixed1Abs(-a, b) ELSE toFixed1Abs(a, b)

\* Math.round((a / b) * 100) for doubles (a >= 0, b > 0).  When 100a / b is
\* p + 1/2 the product of the double a / b with 100 is rounded to a double
\* again: it stays below p + 1/2 when a / b was rounded down by more than
\* half the distance between p + 1/2 and the double before it
MathRoundTimes100(a, b) ==
    LET p    == (100 * a) \div b
        rest == (100 * a) % b
        r    == DoubleResidue(a, b)
        gap  == Exponent(2 * p + 1, 2) - Exponent(a, b)
    IN  IF 2 * rest < b THEN p
        ELSE IF 2 * rest > b THEN p + 1
        ELSE IF r # 0 /\ 2 * r < b
                /\ 200 * r * (IF p = 0 THEN 2 ELSE 1) > b * Pow2(gap) THEN p
        ELSE p + 1

Absent == [exists |-> FALSE]

UserDoc(active, subEnd, trialEnd, plan, info) ==
    [exists              |-> TRUE,
     subscriptionActive  |-> active,
     subscriptionEndDate |-> subEnd,
     trialEndDate        |-> trialEnd,
     subscriptionPlan    |-> plan,
     businessInfo        |-> info,
     reviews             |-> <<>>]

NoBusinessInfo == [present |-> FALSE, businessName |-> "", linkClicks |-> 0, responseRate |-> 0]
BusinessInfo(n, c, r) == [present |-> TRUE, businessName |-> n, linkClicks |-> c, responseRate |-> r]

WithReviews(userDoc, collection) == [userDoc EXCEPT !.reviews = collection]


----------------------------------------------------------------------------
(* Status derivation: sidebar.tsx checkUserStatus, after the document fetch *)

\* sidebar.tsx:56-61 and :64-70: the two representations of a stored timestamp
ParseEndDate(field) ==
    IF field.kind = "timestamp" THEN toDate(field)
    ELSE IF field.kind = "raw" /\ field.seconds # 0
         THEN DateOf(field.seconds * MS_PER_SECOND)
         ELSE NullDate

InitialTrialInfo ==
    [daysLeft |-> 0, isTrial |-> FALSE, trialEnded |-> FALSE, hasSubscription |-> FALSE]

InitialSubscription ==
    [planName |-> "", daysLeft |-> 0, endDate |-> NullDate, isActive |-> FALSE]

\* DeriveStatus whose trial branch leaves the subscription state as it was
DeriveStatus_StaleSubscription(userData, nowMs) ==
    LET trialEndDate        == ParseEndDate(userData.trialEndDate)
        subscriptionEndDate == ParseEndDate(userData.subscriptionEndDate)
    IN  IF userData.subscriptionActive /\ ~subscriptionEndDate.isNull
        THEN [subscription |->
                 [planName |-> userData.subscriptionPlan,
                  daysLeft |-> Ceil(subscriptionEndDate.time - nowMs, MS_PER_DAY),
                  endDate  |-> subscriptionEndDate,
                  isActive |-> TRUE],
              trialInfo |->
                 [daysLeft |-> 0, isTrial |-> FALSE, trialEnded |-> FALSE,
                  hasSubscription |-> TRUE]]
        ELSE IF ~trialEndDate.isNull /\ trialEndDate.time > nowMs
        THEN [subscription |-> subscription,
              trialInfo |->
                 [daysLeft |-> Ceil(trialEndDate.time - nowMs, MS_PER_DAY),
                  isTrial |-> TRUE, trialEnded |-> FALSE, hasSubscription |-> FALSE]]
        ELSE [subscription |-> InitialSubscription,
              trialInfo |->
                 [daysLeft |-> 0, isTrial |-> FALSE, trialEnded |-> TRUE,
                  hasSubscription |-> FALSE]]

\* DeriveStatus with the trial examined before the subscription
DeriveStatus_TrialFirst(userData, nowMs) ==
    LET trialEndDate        == ParseEndDate(userData.trialEndDate)
        subscriptionEndDate == ParseEndDate(userData.subscriptionEndDate)
    IN  IF ~trialEndDate.isNull /\ trialEndDate.time > nowMs
        THEN [subscription |-> InitialSubscription,
              trialInfo |->
                 [daysLeft |-> Ceil(trialEndDate.time - nowMs, MS_PER_DAY),
                  isTrial |-> TRUE, trialEnded |-> FALSE, hasSubscription |-> FALSE]]
        ELSE IF userData.subscriptionActive /\ ~subscriptionEndDate.isNull
        THEN [subscription |->
                 [planName |-> userData.subscriptionPlan,
                  daysLeft |-> Ceil(subscriptionEndDate.time - nowMs, MS_PER_DAY),
                  endDate  |-> subscriptionEndDate,
                  isActive |-> TRUE],
              trialInfo |->
                 [daysLeft |-> 0, isTrial |-> FALSE, trialEnded |-> FALSE,
                  hasSubscription |-> TRUE]]
        ELSE [subscription |-> InitialSubscription,
              trialInfo |->
                 [daysLeft |-> 0, isTrial |-> FALSE, trialEnded |-> TRUE,
                  hasSubscription |-> FALSE]]

\* sidebar.tsx:52-130: the state checkUserStatus sets for an existing document
DeriveStatus(userData, nowMs) ==
    LET trialEndDate        == ParseEndDate(userData.trialEndDate)
        subscriptionEndDate == ParseEndDate(userData.subscriptionEndDate)
        planName            == userData.subscriptionPlan
    IN  IF userData.subscriptionActive /\ ~subscriptionEndDate.isNull
        THEN [subscription |->
                 [planName |-> planName,
                  daysLeft |-> Ceil(subscriptionEndDate.time - nowMs, MS_PER_DAY),
                  endDate  |-> subscriptionEndDate,
                  isActive |-> TRUE],
              trialInfo |->
                 [daysLeft |-> 0, isTrial |-> FALSE, trialEnded |-> FALSE,
                  hasSubscription |-> TRUE]]
        ELSE IF ~trialEndDate.isNull /\ trialEndDate.time > nowMs
        THEN [subscription |-> InitialSubscription,
              trialInfo |->
                 [daysLeft |-> Ceil(trialEndDate.time - nowMs, MS_PER_DAY),
                  isTrial |-> TRUE, trialEnded |-> FALSE, hasSubscription |-> FALSE]]
        ELSE [subscription |-> InitialSubscription,
              trialInfo |->
                 [daysLeft |-> 0, isTrial |-> FALSE, trialEnded |-> TRUE,
                  hasSubscription |-> FALSE]]

----------------------------------------------------------------------------
(* Access guard: page.tsx useSubscriptionStatus *)

\* page.tsx:53-65: "granted" (true), "denied" (false) or "throws"
\* (trialEndDate.toDate is not a function on a plain object)
checkSubscription(userSnap, nowMs) ==
    IF ~userSnap.exists THEN "denied"
    ELSE IF userSnap.subscriptionActive THEN "granted"
    ELSE IF userSnap.trialEndDate.kind = "absent" THEN "denied"
    ELSE IF userSnap.trialEndDate.kind = "raw" THEN "throws"
    ELSE IF toDate(userSnap.trialEndDate).time > nowMs THEN "granted"
    ELSE "denied"

----------------------------------------------------------------------------
(* Navigation tree: sidebar.tsx businessLinks *)

SettingsHref == "/components/business/settings"

\* sidebar.tsx:160-162
subLinks ==
    { [name |-> "Account",        href |-> SettingsHref \o "/account"],
      [name |-> "Locations",      href |-> SettingsHref \o "/location"],
      [name |-> "Business Users", href |-> SettingsHref \o "/businessusers"] }

\* sidebar.tsx:151-165
businessLinks ==
    { [name |-> "Dashboard",   href |-> "/components/business/dashboard",   subLinks |-> {}],
      [name |-> "Reviews",     href |-> "/components/business/reviews",     subLinks |-> {}],
      [name |-> "Review Link", href |-> "/components/business/review-link", subLinks |-> {}],
      [name |-> "Settings",    href |-> SettingsHref,                                subLinks |-> subLinks] }

HashTarget == "#"           \* the "#" link target, sidebar.tsx:210

\* String.prototype.includes
Includes(path, part) ==
    \E i \in 1..(Len(path) - Len(part) + 1) : SubSeq(path, i, i + Len(part) - 1) = part

\* sidebar.tsx:181-185
shouldKeepSettingsOpen(path) ==
    \E link \in businessLinks : \E subLink \in link.subLinks : path = subLink.href

\* isDisabled without the exception for "Settings"
isDisabled_NoSettingsException(link, ti, sub) ==
    ti.trialEnded /\ ~sub.isActive

\* sidebar.tsx:204
isDisabled(link, ti, sub) ==
    ti.trialEnded /\ ~sub.isActive /\ link.name # "Settings"

\* sidebar.tsx:210: the `to` of a top-level entry rendered as a Link
linkTarget(link, ti, sub) ==
    IF isDisabled(link, ti, sub) THEN HashTarget ELSE link.href

\* sidebar.tsx:263: whether the sub-entry list is rendered
subLinksRendered(link, flag, path) ==
    link.subLinks # {} /\ link.name = "Settings" /\ (flag \/ shouldKeepSettingsOpen(path))

\* sidebar.tsx:187-191: the effect SidebarContent runs after it (re)mounts
KeepOpenEffect(flag, path) == IF shouldKeepSettingsOpen(path) THEN TRUE ELSE flag

\* sidebar.tsx:138-140: the effect Sidebar runs when location.pathname changes
PathEffect(flag, path) ==
    IF Includes(path, SettingsHref) THEN TRUE ELSE flag

\* sidebar.tsx:298: the trial status block is rendered
trialStatusShown(ti, sub) == ti.isTrial /\ ~sub.isActive

\* sidebar.tsx:304-308: the text of the trial status block
trialText(daysLeft) ==
    IF daysLeft > 1 THEN "N days left"
    ELSE IF daysLeft = 1 THEN "Last day"
    ELSE "Ends today"

----------------------------------------------------------------------------
(* Review aggregation: page.tsx:129-171 *)

\* JavaScript numbers that may be NaN: an average in tenths, a sum of
\* ratings in half stars
NaN       == [nan |-> TRUE,  tenths |-> 0]
Num(t)    == [nan |-> FALSE, tenths |-> t]
NaNSum    == [nan |-> TRUE,  halves |-> 0]
Sum(h)    == [nan |-> FALSE, halves |-> h]

\* the `rating` field of a stored review: missing, or a number of half stars
MissingRating == [kind |-> "missing", halves |-> 0]
Rating(h)     == [kind |-> "number",  halves |-> h]

\* the `createdAt` field of a stored review
NoCreatedAt   == [present |-> FALSE, seconds |-> 0]
CreatedAt(s)  == [present |-> TRUE,  seconds |-> s]

ReviewDoc(id, rating, createdAt) == [id |-> id, rating |-> rating, createdAt |-> createdAt]

\* page.tsx:135-147: the record pushed to reviewsData (the fields the
\* statistics and the ordering read; the text fields are defaulted the same way)
NormalizeReview(d) ==
    [id      |-> d.id,
     rating  |-> IF d.rating.kind = "missing" THEN 0 ELSE d.rating.halves,
     seconds |-> IF d.createdAt.present THEN d.createdAt.seconds ELSE 0]

\* page.tsx:133-147: reviewsData after the forEach
reviewsDataOf(docs) == [i \in 1..Len(docs) |-> NormalizeReview(docs[i])]

\* page.tsx:150: totalRating += data.rating  (undefined makes it NaN)
AddRating(total, rating) ==
    IF total.nan \/ rating.kind = "missing" THEN NaNSum
    ELSE Sum(total.halves + rating.halves)

\* CountRating with the buckets in the order 1-star..5-star
CountRating_Ascending(counts, rating) ==
    IF rating.kind = "number" /\ rating.halves >= 2 /\ rating.halves <= 10
       /\ rating.halves % 2 = 0
    THEN [counts EXCEPT ![rating.halves \div 2 - 1] = @ + 1]
    ELSE counts

\* page.tsx:151-153: ratingCounts after one record; a rating in [1,5] that is
\* not an integer writes a non-index property and leaves the five buckets alone
CountRating(counts, rating) ==
    IF rating.kind = "number" /\ rating.halves >= 2 /\ rating.halves <= 10
       /\ rating.halves % 2 = 0
    THEN [counts EXCEPT ![5 - rating.halves \div 2] = @ + 1]
    ELSE counts

EmptyCounts == [i \in 0..4 |-> 0]       \* page.tsx:131

RECURSIVE totalRatingOf(_)
\* page.tsx:130, :150 over the whole snapshot
totalRatingOf(docs) ==
    IF docs = <<>> THEN Sum(0)
    ELSE AddRating(totalRatingOf(SubSeq(docs, 1, Len(docs) - 1)), docs[Len(docs)].rating)

RECURSIVE ratingCountsOf(_)
\* page.tsx:131, :151-153 over the whole snapshot
ratingCountsOf(docs) ==
    IF docs = <<>> THEN EmptyCounts
    ELSE CountRating(ratingCountsOf(SubSeq(docs, 1, Len(docs) - 1)), docs[Len(docs)].rating)

\* page.tsx:157-158: parseFloat((totalRating / totalReviews).toFixed(1))
averageRatingOf(totalRating, totalReviews) ==
    IF totalReviews > 0
    THEN IF totalRating.nan THEN NaN
         ELSE Num(toFixed1(totalRating.halves, 2 * totalReviews))
    ELSE Num(0)

\* InsertDescending with the comparator a.seconds - b.seconds
InsertAscending(x, sorted) ==
    LET k == Cardinality({i \in 1..Len(sorted) : sorted[i].seconds <= x.seconds})
    IN  SubSeq(sorted, 1, k) \o <<x>> \o SubSeq(sorted, k + 1, Len(sorted))

\* one step of the stable sort with comparator b.seconds - a.seconds:
\* x goes after every element that does not sort after it
InsertDescending(x, sorted) ==
    LET k == Cardinality({i \in 1..Len(sorted) : sorted[i].seconds >= x.seconds})
    IN  SubSeq(sorted, 1, k) \o <<x>> \o SubSeq(sorted, k + 1, Len(sorted))

RECURSIVE sortReviews(_)
\* page.tsx:161-163: Array.prototype.sort (stable), newest first
sortReviews(list) ==
    IF list = <<>> THEN <<>>
    ELSE InsertDescending(list[Len(list)], sortReviews(SubSeq(list, 1, Len(list) - 1)))

InitialStats ==
    [totalReviews |-> 0, averageRating |-> Num(0), linkClicks |-> 0,
     responseRate |-> 0, ratingDistribution |-> EmptyCounts]

\* page.tsx:193-197
calculatePercentage(count, st) ==
    IF st.totalReviews > 0 THEN MathRoundTimes100(count, st.totalReviews) ELSE 0

----------------------------------------------------------------------------
(* Auth-state callbacks.  A callback is numbered by its order of delivery;  *)
(* a handler in flight is [ev, uid] (the dashboard's also has its stage).   *)

LoginPath   == "/login"             \* page.tsx:108, :178
PricingPath == "/pricing"          \* page.tsx:73

Handler(ev, uid) == [ev |-> ev, uid |-> uid]

NoneYet == [ev |-> 0, uid |-> NoUser, outcome |-> "none"]
Ended(h, outcome) == [ev |-> h.ev, uid |-> h.uid, outcome |-> outcome]

\* the router's location becomes `path`: Sidebar renders again and, when the
\* pathname differs, its effect (sidebar.tsx:136-140) and the mount effect of
\* the re-created SidebarContent (sidebar.tsx:187-191) run
LocationBecomes(path) ==
    /\ pathname' = path
    /\ settingsOpen' = IF path = pathname THEN settingsOpen
                       ELSE KeepOpenEffect(PathEffect(settingsOpen, path), path)

\* page.tsx:73, :108, :178: navigate(to), issued by the handler h
Navigate(h, to) ==
    /\ navRequests' = navRequests \cup {[ev |-> h.ev, uid |-> h.uid, to |-> to]}
    /\ LocationBecomes(to)

\* a handler's stretch that calls navigate nowhere
NoNavigate == UNCHANGED <<navRequests, pathname, settingsOpen>>

\* the auth service delivers its state to the subscribed listeners
OnAuthEnv(user) ==
    /\ authEvents < MaxAuthEvents
    /\ authEvents' = authEvents + 1
    /\ currentUser' = user
    /\ UNCHANGED <<now, users>>

\* sidebar.tsx:142-146
SidebarOnAuth(user) ==
    /\ sbPending' = IF user = NoUser THEN sbPending
                    ELSE sbPending \cup {Handler(authEvents + 1, user)}
    /\ UNCHANGED <<open, trialInfo, subscription, sbLast>>

\* page.tsx:69-76 and :101-103, :177-179
DashboardOnAuth(user) ==
    /\ guardPending' = IF user = NoUser THEN guardPending
                       ELSE guardPending \cup {Handler(authEvents + 1, user)}
    /\ dashPending' = IF user = NoUser THEN dashPending
                      ELSE dashPending \cup
                           {[ev |-> authEvents + 1, uid |-> user, stage |-> "getDoc"]}
    /\ IF user = NoUser
       THEN Navigate(Handler(authEvents + 1, NoUser), LoginPath)
       ELSE NoNavigate
    /\ UNCHANGED <<loading, businessName, reviews, stats, guardLast, dashLast>>

\* an auth-state change seen by the whole page (dashboard with its sidebar)
AuthEvent(user) ==
    OnAuthEnv(user) /\ SidebarOnAuth(user) /\ DashboardOnAuth(user)

\* an auth-state change seen by a sidebar alone
SidebarAuthEvent(user) ==
    OnAuthEnv(user) /\ SidebarOnAuth(user) /\ UNCHANGED <<pathname, settingsOpen>>
                    /\ UNCHANGED dashVars

\* an auth-state change seen by the dashboard's two listeners alone
DashboardAuthEvent(user) ==
    OnAuthEnv(user) /\ DashboardOnAuth(user) /\ UNCHANGED sideRest

----------------------------------------------------------------------------
(* Sidebar handlers *)

\* sidebar.tsx:45-130: getDoc resolved
StatusResolved(h) ==
    /\ h \in sbPending
    /\ sbPending' = sbPending \ {h}
    /\ LET userSnap == users[h.uid]
       IN  IF ~userSnap.exists
           THEN /\ sbLast' = Ended(h, "nodoc")
                /\ UNCHANGED <<trialInfo, subscription, settingsOpen>>
           ELSE /\ trialInfo' = DeriveStatus(userSnap, now).trialInfo
                /\ subscription' = DeriveStatus(userSnap, now).subscription
                /\ settingsOpen' = KeepOpenEffect(settingsOpen, pathname)
                /\ sbLast' = Ended(h, "set")
    /\ UNCHANGED <<pathname, open>>
    /\ UNCHANGED <<envVars, dashVars>>

\* sidebar.tsx:131-133: getDoc rejected
StatusFailed(h) ==
    /\ h \in sbPending
    /\ sbPending' = sbPending \ {h}
    /\ sbLast' = Ended(h, "error")
    /\ UNCHANGED <<pathname, open, settingsOpen, trialInfo, subscription>>
    /\ UNCHANGED <<envVars, dashVars>>

\* sidebar.tsx:136-149: location.pathname becomes `path`; the effect re-runs
\* and subscribes a new listener, which the auth client calls in a later
\* turn (an auth-state callback of its own)
Relocate(path) ==
    /\ LocationBecomes(path)
    /\ UNCHANGED <<trialInfo, subscription, sbPending, sbLast>>
    /\ UNCHANGED <<envVars, dashVars>>

\* a path that contains the Settings href without being one of its entries
ArchivePath == SettingsHref \o "-archive"

Paths ==
    {l.href : l \in businessLinks} \cup {l.href : l \in subLinks}
        \cup {PricingPath, LoginPath, ArchivePath}

\* the location changes for a reason outside the sidebar
PathChange(path) ==
    /\ path # pathname
    /\ Relocate(path)
    /\ UNCHANGED open

\* sidebar.tsx:209-227: click on a top-level entry rendered as a Link
ClickLink(link) ==
    /\ link.subLinks = {}
    /\ IF isDisabled(link, trialInfo, subscription)
       THEN UNCHANGED vars                          \* e.preventDefault()
       ELSE /\ open' = FALSE
            /\ IF linkTarget(link, trialInfo, subscription) = pathname
               THEN UNCHANGED <<envVars, dashVars, pathname, settingsOpen,
                                trialInfo, subscription, sbPending, sbLast>>
               ELSE Relocate(linkTarget(link, trialInfo, subscription))

\* variant whose click only ever expands the list
ClickSettings_OpenOnly(link) ==
    /\ link.subLinks # {}
    /\ IF isDisabled(link, trialInfo, subscription)
       THEN UNCHANGED vars
       ELSE /\ settingsOpen' = IF link.name = "Settings"
                               THEN KeepOpenEffect(TRUE, pathname)
                               ELSE settingsOpen
            /\ UNCHANGED <<pathname, open, trialInfo, subscription, sbPending, sbLast>>
            /\ UNCHANGED <<envVars, dashVars>>

\* sidebar.tsx:235-251: click on the "Settings" button
ClickSettings(link) ==
    /\ link.subLinks # {}
    /\ IF isDisabled(link, trialInfo, subscription)
       THEN UNCHANGED vars
       ELSE /\ settingsOpen' = IF link.name = "Settings"
                               THEN KeepOpenEffect(~settingsOpen, pathname)
                               ELSE settingsOpen
            /\ UNCHANGED <<pathname, open, trialInfo, subscription, sbPending, sbLast>>
            /\ UNCHANGED <<envVars, dashVars>>

\* sidebar.tsx:268-277: click on a rendered sub-entry
ClickSubLink(link, subLink) ==
    /\ subLink \in link.subLinks
    /\ subLinksRendered(link, settingsOpen, pathname)
    /\ open' = FALSE
    /\ IF subLink.href = pathname
       THEN UNCHANGED <<envVars, dashVars, pathname, settingsOpen,
                        trialInfo, subscription, sbPending, sbLast>>
       ELSE Relocate(subLink.href)

\* sidebar.tsx:365: the mobile sheet is opened or closed
ToggleSheet ==
    /\ open' = ~open
    /\ UNCHANGED <<pathname, settingsOpen, trialInfo, subscription, sbPending, sbLast>>
    /\ UNCHANGED <<envVars, dashVars>>

\* sidebar.tsx:142-146: the listener subscribed by the latest run of the
\* effect is called with the current user
ListenerCalled == SidebarAuthEvent(currentUser)

\* sidebar.tsx:167-171: signOut(auth) has resolved and window.location.href
\* is set to "/login": the document is replaced, so every component's state
\* is that of a fresh construction and no handler of the old document runs on
handleLogout ==
    /\ currentUser' = NoUser
    /\ pathname' = LoginPath
    /\ open' = FALSE
    /\ settingsOpen' = FALSE
    /\ trialInfo' = InitialTrialInfo
    /\ subscription' = InitialSubscription
    /\ sbPending' = {}
    /\ sbLast' = NoneYet
    /\ loading' = TRUE
    /\ businessName' = ""
    /\ reviews' = <<>>
    /\ stats' = InitialStats
    /\ navRequests' = {}
    /\ guardPending' = {}
    /\ guardLast' = NoneYet
    /\ dashPending' = {}
    /\ dashLast' = NoneYet
    /\ UNCHANGED <<now, users, authEvents>>

----------------------------------------------------------------------------
(* Dashboard handlers *)

\* page.tsx:113-120: userData?.businessInfo || {}, each field defaulted
businessDataOf(userData) ==
    IF userData.businessInfo.present
    THEN [businessName |-> userData.businessInfo.businessName,
          linkClicks   |-> userData.businessInfo.linkClicks,
          responseRate |-> userData.businessInfo.responseRate]
    ELSE [businessName |-> "", linkClicks |-> 0, responseRate |-> 0]


\* page.tsx:51-65, :71-74: the guard's getDoc resolved
GuardResolved(h) ==
    /\ h \in guardPending
    /\ guardPending' = guardPending \ {h}
    /\ LET hasActiveAccess == checkSubscription(users[h.uid], now)
       IN  /\ guardLast' = Ended(h, hasActiveAccess)
           /\ IF hasActiveAccess = "denied"
              THEN Navigate(h, PricingPath)
              ELSE NoNavigate
    /\ UNCHANGED <<loading, businessName, reviews, stats, dashPending, dashLast>>
    /\ UNCHANGED <<envVars, sideRest>>

\* page.tsx:51: the guard's getDoc rejected; nothing catches it
GuardFailed(h) ==
    /\ h \in guardPending
    /\ guardPending' = guardPending \ {h}
    /\ guardLast' = Ended(h, "rejected")
    /\ UNCHANGED <<loading, businessName, reviews, stats, navRequests, dashPending, dashLast>>
    /\ UNCHANGED <<envVars, sideVars>>

\* page.tsx:105-128: getDoc resolved; up to the await of getDocs
UserDocResolved(h) ==
    /\ h \in dashPending
    /\ h.stage = "getDoc"
    /\ LET userDoc == users[h.uid]
       IN  IF ~userDoc.exists
           THEN /\ Navigate(h, LoginPath)
                /\ loading' = FALSE                       \* finally
                /\ dashPending' = dashPending \ {h}
                /\ dashLast' = Ended(h, "nodoc")
                /\ UNCHANGED <<businessName, stats>>
           ELSE /\ businessName' = businessDataOf(userDoc).businessName
                /\ stats' = [stats EXCEPT !.linkClicks   = businessDataOf(userDoc).linkClicks,
                                          !.responseRate = businessDataOf(userDoc).responseRate]
                /\ dashPending' = (dashPending \ {h}) \cup {[h EXCEPT !.stage = "getDocs"]}
                /\ NoNavigate
                /\ UNCHANGED <<loading, dashLast>>
    /\ UNCHANGED <<reviews, guardPending, guardLast>>
    /\ UNCHANGED <<envVars, sideRest>>

\* variant that drops the results of a handler of an earlier auth event
ReviewsResolved_DropStale(h) ==
    /\ h \in dashPending
    /\ h.stage = "getDocs"
    /\ dashPending' = dashPending \ {h}
    /\ LET querySnapshot == users[h.uid].reviews
           reviewsData   == reviewsDataOf(querySnapshot)
           totalReviews  == Len(reviewsData)
       IN  IF h.ev < authEvents
           THEN UNCHANGED <<reviews, stats>>
           ELSE /\ reviews' = sortReviews(reviewsData)
                /\ stats' = [stats EXCEPT
                               !.totalReviews       = totalReviews,
                               !.averageRating      = averageRatingOf(totalRatingOf(querySnapshot),
                                                                      totalReviews),
                               !.ratingDistribution = ratingCountsOf(querySnapshot)]
    /\ loading' = FALSE
    /\ dashLast' = Ended(h, "loaded")
    /\ UNCHANGED <<businessName, navRequests, guardPending, guardLast>>
    /\ UNCHANGED <<envVars, sideVars>>

\* page.tsx:128-176: getDocs resolved
ReviewsResolved(h) ==
    /\ h \in dashPending
    /\ h.stage = "getDocs"
    /\ dashPending' = dashPending \ {h}
    /\ LET querySnapshot == users[h.uid].reviews
           reviewsData   == reviewsDataOf(querySnapshot)
           totalReviews  == Len(reviewsData)
       IN  /\ reviews' = sortReviews(reviewsData)
           /\ stats' = [stats EXCEPT
                          !.totalReviews       = totalReviews,
                          !.averageRating      = averageRatingOf(totalRatingOf(querySnapshot),
                                                                 totalReviews),
                          !.ratingDistribution = ratingCountsOf(querySnapshot)]
    /\ loading' = FALSE                                   \* finally
    /\ dashLast' = Ended(h, "loaded")
    /\ UNCHANGED <<businessName, navRequests, guardPending, guardLast>>
    /\ UNCHANGED <<envVars, sideVars>>

\* variant without the finally block
FetchFailed_NoFinally(h) ==
    /\ h \in dashPending
    /\ dashPending' = dashPending \ {h}
    /\ dashLast' = Ended(h, "error:" \o h.stage)
    /\ UNCHANGED <<loading, businessName, reviews, stats, navRequests, guardPending, guardLast>>
    /\ UNCHANGED <<envVars, sideVars>>

\* page.tsx:172-176: getDoc or getDocs rejected
FetchFailed(h) ==
    /\ h \in dashPending
    /\ dashPending' = dashPending \ {h}
    /\ loading' = FALSE                                   \* finally
    /\ dashLast' = Ended(h, "error:" \o h.stage)
    /\ UNCHANGED <<businessName, reviews, stats, navRequests, guardPending, guardLast>>
    /\ UNCHANGED <<envVars, sideVars>>

----------------------------------------------------------------------------
(* Environment *)

Hour == 60 * 60 * MS_PER_SECOND

\* instants the derivation is examined at
NowDomain == {0, 1, Hour, MS_PER_DAY, 25 * Hour}

\* instants the clock moves to while handlers are in flight
ClockDomain == {25 * Hour}

\* time passes
Tick(t) ==
    /\ t > now
    /\ now' = t
    /\ UNCHANGED <<users, currentUser, authEvents>>
    /\ UNCHANGED <<sideVars, dashVars>>

----------------------------------------------------------------------------
(* Initial states: the state after construction, over a given store *)

InitOver(store, t) ==
    /\ now = t
    /\ users = store
    /\ currentUser = NoUser
    /\ authEvents = 0
    /\ pathname = "/components/business/dashboard"
    /\ open = FALSE
    /\ settingsOpen = FALSE
    /\ trialInfo = InitialTrialInfo
    /\ subscription = InitialSubscription
    /\ sbPending = {}
    /\ sbLast = NoneYet
    /\ loading = TRUE
    /\ businessName = ""
    /\ reviews = <<>>
    /\ stats = InitialStats
    /\ navRequests = {}
    /\ guardPending = {}
    /\ guardLast = NoneYet
    /\ dashPending = {}
    /\ dashLast = NoneYet

----------------------------------------------------------------------------
(* Stores the behaviours start from *)

SecondsPerHour == 60 * 60

\* -- the sidebar's accounts: every standing the derivation tells apart
SubscribedDoc  == UserDoc(TRUE,  Timestamp(36 * SecondsPerHour, 0),
                                 Timestamp(24 * SecondsPerHour, 0), "Pro", NoBusinessInfo)
TrialDoc       == UserDoc(FALSE, NoField, Timestamp(24 * SecondsPerHour, 0), "", NoBusinessInfo)
ExpiredDoc     == UserDoc(FALSE, NoField, Timestamp(0, 0), "", NoBusinessInfo)
ActiveNoEndDoc == UserDoc(TRUE,  NoField, NoField, "Pro", NoBusinessInfo)

SidebarDocs == {Absent, SubscribedDoc, TrialDoc, ExpiredDoc, ActiveNoEndDoc}

\* the accounts a sidebar on its own is examined with
SidebarDocsOf(uid) ==
    IF uid = "u1" THEN {SubscribedDoc, TrialDoc, ExpiredDoc}
                  ELSE {Absent, TrialDoc, ActiveNoEndDoc}

\* -- the dashboard's accounts: data that tells the two users apart
InfoOf(uid) == IF uid = "u1" THEN BusinessInfo("Acme", 3, 50) ELSE BusinessInfo("Bolt", 7, 80)

ReviewsOf(uid) ==
    IF uid = "u1"
    THEN << ReviewDoc(1, Rating(10), CreatedAt(100)),
            ReviewDoc(2, Rating(8), CreatedAt(300)),
            ReviewDoc(3, Rating(8), CreatedAt(200)) >>
    ELSE << ReviewDoc(1, Rating(2), CreatedAt(200)),
            ReviewDoc(2, MissingRating, NoCreatedAt) >>

\* a collection of 40 reviews, 23 of them rated 5: the share of the 5-star
\* bucket is 57.5 %
BulkReviews ==
    [i \in 1..40 |-> IF i <= 23 THEN ReviewDoc(i, Rating(10), CreatedAt(200))
                                ELSE ReviewDoc(i, Rating(2), CreatedAt(200))]

PaidDoc(uid)   == WithReviews(UserDoc(TRUE, Timestamp(36 * SecondsPerHour, 0), NoField,
                                      "Pro", InfoOf(uid)), ReviewsOf(uid))
LapsedDoc(uid) == WithReviews(UserDoc(FALSE, NoField, Timestamp(24 * SecondsPerHour, 0),
                                      "", InfoOf(uid)), ReviewsOf(uid))
BareDoc        == UserDoc(TRUE, NoField, NoField, "", NoBusinessInfo)

DashboardDocs(uid) == {Absent, PaidDoc(uid), LapsedDoc(uid)}

\* -- every account the status derivation can be given
SecondsDomain == {-1, 0, 12 * SecondsPerHour, 24 * SecondsPerHour, 36 * SecondsPerHour}
NanosDomain   == {0, 500000, 1000000}

TimestampFields ==
    {NoField} \cup {Timestamp(sec, ns) : sec \in SecondsDomain, ns \in NanosDomain}
              \cup {RawSeconds(sec) : sec \in SecondsDomain}

AllUserDocs ==
    {UserDoc(a, se, te, p, NoBusinessInfo) :
        a \in BOOLEAN, se \in TimestampFields, te \in TimestampFields, p \in {"", "Pro"}}

\* -- every review collection the aggregation can be given
RatingDomain    == {MissingRating} \cup {Rating(h) : h \in {0, 2, 6, 8, 9, 10, 12}}
CreatedAtDomain == {NoCreatedAt} \cup {CreatedAt(sec) : sec \in {100, 200, 300}}

ReviewFields ==
    {[rating |-> r, createdAt |-> CreatedAt(100)] : r \in RatingDomain}
    \cup {[rating |-> Rating(8), createdAt |-> c] : c \in CreatedAtDomain}

ReviewCollections(maxLen) ==
    UNION {{[i \in 1..n |-> ReviewDoc(i, f[i].rating, f[i].createdAt)] :
                f \in [1..n -> ReviewFields]} : n \in 0..maxLen}

OnlyUser(userDoc) == [uid \in Uids |-> IF uid = "u1" THEN userDoc ELSE Absent]

----------------------------------------------------------------------------
(* Specifications *)

\* the whole page: the dashboard with its sidebar
Init == \E store \in [Uids -> SidebarDocs \cup {BareDoc}
                                        \cup UNION {DashboardDocs(uid) : uid \in Uids}] :
            InitOver(store, 0)

Next ==
    \/ \E user \in Uids \cup {NoUser} : AuthEvent(user)
    \/ \E h \in sbPending : StatusResolved(h)
    \/ \E h \in sbPending : StatusFailed(h)
    \/ \E h \in guardPending : GuardResolved(h)
    \/ \E h \in guardPending : GuardFailed(h)
    \/ \E h \in dashPending : UserDocResolved(h)
    \/ \E h \in dashPending : ReviewsResolved(h)
    \/ \E h \in dashPending : FetchFailed(h)
    \/ \E path \in Paths : PathChange(path)
    \/ \E link \in businessLinks : ClickLink(link)
    \/ \E link \in businessLinks : ClickSettings(link)
    \/ \E link \in businessLinks : \E subLink \in subLinks : ClickSubLink(link, subLink)
    \/ ToggleSheet
    \/ ListenerCalled
    \/ handleLogout
    \/ \E t \in ClockDomain : Tick(t)

Spec == Init /\ [][Next]_vars

\* a sidebar on its own
InitSidebar == \E store \in [Uids -> SidebarDocs] :
                  /\ \A uid \in Uids : store[uid] \in SidebarDocsOf(uid)
                  /\ InitOver(store, 0)

NextSidebar ==
    \/ \E user \in Uids \cup {NoUser} : SidebarAuthEvent(user)
    \/ \E h \in sbPending : StatusResolved(h)
    \/ \E h \in sbPending : StatusFailed(h)
    \/ \E path \in Paths : PathChange(path)
    \/ \E link \in businessLinks : ClickLink(link)
    \/ \E link \in businessLinks : ClickSettings(link)
    \/ \E link \in businessLinks : \E subLink \in subLinks : ClickSubLink(link, subLink)
    \/ ToggleSheet
    \/ handleLogout
    \/ \E t \in ClockDomain : Tick(t)

SpecSidebar == InitSidebar /\ [][NextSidebar]_vars

\* the dashboard's two listeners on their own
InitDashboard == \E store \in [Uids -> UNION {DashboardDocs(uid) : uid \in Uids}] :
                    /\ \A uid \in Uids : store[uid] \in DashboardDocs(uid)
                    /\ InitOver(store, 0)

NextDashboard ==
    \/ \E user \in Uids \cup {NoUser} : DashboardAuthEvent(user)
    \/ \E h \in guardPending : GuardResolved(h)
    \/ \E h \in guardPending : GuardFailed(h)
    \/ \E h \in dashPending : UserDocResolved(h)
    \/ \E h \in dashPending : ReviewsResolved(h)
    \/ \E h \in dashPending : FetchFailed(h)
    \/ \E t \in ClockDomain : Tick(t)

SpecDashboard == InitDashboard /\ [][NextDashboard]_vars

\* the dashboard's two listeners over an account with many reviews (u1) and
\* one with three (u2)
InitTally == InitOver([uid \in Uids |->
                          IF uid = "u1" THEN WithReviews(PaidDoc(uid), BulkReviews)
                                        ELSE WithReviews(PaidDoc(uid), ReviewsOf("u1"))], 0)

SpecTally == InitTally /\ [][NextDashboard]_vars

\* the first auth-state callback after mount
FirstAuthEvent(user) == authEvents = 0 /\ AuthEvent(user)

\* status derivation and access guard over every account and instant:
\* one sign-in, both screens' checks
InitStatus == \E userDoc \in AllUserDocs \cup {Absent}, t \in NowDomain :
                  InitOver(OnlyUser(userDoc), t)

NextStatus ==
    \/ FirstAuthEvent("u1")
    \/ \E h \in sbPending : StatusResolved(h)
    \/ \E h \in sbPending : StatusFailed(h)
    \/ \E h \in guardPending : GuardResolved(h)
    \/ \E h \in guardPending : GuardFailed(h)

SpecStatus == InitStatus /\ [][NextStatus]_vars

\* review aggregation over every review collection: one sign-in, one load
InitAggregate == \E collection \in ReviewCollections(MaxReviews) :
                     InitOver(OnlyUser(WithReviews(BareDoc, collection)), 0)

NextAggregate ==
    \/ FirstAuthEvent("u1")
    \/ \E h \in dashPending : UserDocResolved(h)
    \/ \E h \in dashPending : ReviewsResolved(h)
    \/ \E h \in dashPending : FetchFailed(h)

SpecAggregate == InitAggregate /\ [][NextAggregate]_vars

\* two accounts signing in one after the other on the whole page: the
\* sidebar's check and the dashboard's load, each left to finish in any
\* order (the guard's check writes no screen state and is left in flight)
InitRace == InitOver([uid \in Uids |-> IF uid = "u1" THEN PaidDoc(uid) ELSE LapsedDoc(uid)], 0)

NextRace ==
    \/ \E user \in Uids \cup {NoUser} : AuthEvent(user)
    \/ \E h \in sbPending : StatusResolved(h)
    \/ \E h \in sbPending : StatusFailed(h)
    \/ \E h \in dashPending : UserDocResolved(h)
    \/ \E h \in dashPending : ReviewsResolved(h)
    \/ \E h \in dashPending : FetchFailed(h)

SpecRace == InitRace /\ [][NextRace]_vars

\* the dashboard's load on its own, for an account with a record and
\* reviews (u1) and an account without a record (u2)
InitLoading == InitOver([uid \in Uids |-> IF uid = "u1" THEN PaidDoc(uid) ELSE Absent], 0)

\* every fetch in flight settles: the promise of getDoc or getDocs resolves
\* or rejects and the handler's continuation runs
DashboardStep ==
    \E h \in dashPending : UserDocResolved(h) \/ ReviewsResolved(h) \/ FetchFailed(h)

NextLoading ==
    \/ \E user \in Uids \cup {NoUser} : DashboardAuthEvent(user)
    \/ \E h \in dashPending : UserDocResolved(h)
    \/ \E h \in dashPending : ReviewsResolved(h)
    \/ \E h \in dashPending : FetchFailed(h)

SpecLoading == InitLoading /\ [][NextLoading]_vars /\ WF_vars(DashboardStep)

----------------------------------------------------------------------------
(* Properties *)

\* d is the ceiling of ms / MS_PER_DAY
IsCeilDays(d, ms) == (d - 1) * MS_PER_DAY < ms /\ ms <= d * MS_PER_DAY

\* the account and the parsed end dates of the status check that finished last
CheckedDoc      == users[sbLast.uid]
CheckedSubEnd   == ParseEndDate(CheckedDoc.subscriptionEndDate)
CheckedTrialEnd == ParseEndDate(CheckedDoc.trialEndDate)

\* C1: once checkUserStatus has set the state for an account at instant now,
\* the state is the one the three-step precedence prescribes: an active
\* subscription with an end date wins (days left by ceiling, plan name set,
\* trial fields cleared); otherwise an unexpired trial (days left by ceiling);
\* otherwise trialEnded with everything else cleared.  With it the three
\* worked cases: end in 36 h gives 2, trial end in 12 h gives 1, trial end one
\* hour ago gives trialEnded.
C1_ThreeStepPrecedence ==
    sbLast.outcome = "set" =>
        /\ IF CheckedDoc.subscriptionActive /\ ~CheckedSubEnd.isNull
           THEN /\ trialInfo = [daysLeft |-> 0, isTrial |-> FALSE, trialEnded |-> FALSE,
                                hasSubscription |-> TRUE]
                /\ subscription.isActive
                /\ IsCeilDays(subscription.daysLeft, CheckedSubEnd.time - now)
                /\ subscription.planName = CheckedDoc.subscriptionPlan
           ELSE IF ~CheckedTrialEnd.isNull /\ CheckedTrialEnd.time > now
           THEN /\ trialInfo.isTrial
                /\ ~trialInfo.hasSubscription
                /\ IsCeilDays(trialInfo.daysLeft, CheckedTrialEnd.time - now)
           ELSE trialInfo = [daysLeft |-> 0, isTrial |-> FALSE, trialEnded |-> TRUE,
                             hasSubscription |-> FALSE]
        /\ (CheckedDoc.subscriptionActive /\ CheckedSubEnd.time - now = 36 * Hour)
               => subscription.daysLeft = 2
        /\ (~CheckedDoc.subscriptionActive /\ CheckedTrialEnd.time - now = 12 * Hour)
               => trialInfo.daysLeft = 1
        /\ (~CheckedDoc.subscriptionActive /\ ~CheckedTrialEnd.isNull
                /\ CheckedTrialEnd.time - now = -Hour)
               => trialInfo.trialEnded

\* C1 witness: a check has set the state of an account that has both an active
\* subscription ending in 36 h and a trial ending in 12 h
C1_Witness ==
    /\ sbLast.outcome = "set"
    /\ CheckedDoc.subscriptionActive
    /\ ~CheckedSubEnd.isNull /\ CheckedSubEnd.time - now = 36 * Hour
    /\ ~CheckedTrialEnd.isNull /\ CheckedTrialEnd.time - now = 12 * Hour
    /\ subscription.daysLeft = 2

\* C2: for an existing account the guard grants access exactly when the
\* status derivation, for the same account and instant, reports an active
\* subscription or a trial, and otherwise redirects to /pricing
C2_GuardIsReductionOfStatus ==
    (guardLast.outcome \in {"granted", "denied", "throws"} /\ users[guardLast.uid].exists) =>
        LET derived == DeriveStatus(users[guardLast.uid], now)
            live    == derived.subscription.isActive \/ derived.trialInfo.isTrial
        IN  /\ (guardLast.outcome = "granted") <=> live
            /\ ~live => [ev |-> guardLast.ev, uid |-> guardLast.uid, to |-> PricingPath]
                            \in navRequests

SettingsLink == CHOOSE link \in businessLinks : link.name = "Settings"

\* C3: while trialEnded holds and the subscription is not active, every entry
\* other than "Settings" is disabled: its link target is not its real path
\* and a click on it does not change the location.  In every state "Settings"
\* is enabled: a click on it is not swallowed, its sub-entry list is shown or
\* one click shows it, and a shown sub-entry leads to its own path.  (A click
\* that relocates needs an auth callback left within the bound.)
C3_OnlySettingsWhenTrialEnded ==
    /\ (trialInfo.trialEnded /\ ~subscription.isActive) =>
           \A link \in businessLinks \ {SettingsLink} :
               /\ linkTarget(link, trialInfo, subscription) # link.href
               /\ ~ENABLED (ClickLink(link) /\ pathname' # pathname)
    /\ ~isDisabled(SettingsLink, trialInfo, subscription)
    /\ \/ subLinksRendered(SettingsLink, settingsOpen, pathname)
       \/ ENABLED (ClickSettings(SettingsLink)
                     /\ subLinksRendered(SettingsLink, settingsOpen', pathname'))
    /\ (subLinksRendered(SettingsLink, settingsOpen, pathname)
            /\ authEvents < MaxAuthEvents) =>
           \A subLink \in subLinks :
               subLink.href # pathname =>
                   ENABLED (ClickSubLink(SettingsLink, subLink) /\ pathname' = subLink.href)

\* C3 witness: the trial has ended with no subscription, the sub-entry list is
\* shown away from the settings paths, and a click can still relocate
C3_Witness ==
    /\ trialInfo.trialEnded /\ ~subscription.isActive
    /\ authEvents < MaxAuthEvents
    /\ ~Includes(pathname, SettingsHref)
    /\ subLinksRendered(SettingsLink, settingsOpen, pathname)

\* C10: in every sidebar state at most one of trial and subscription is
\* live: never isTrial with an active subscription, never trialEnded with
\* isTrial or an active subscription, hasSubscription equals
\* subscription.isActive; and an account with an active subscription that has
\* an end date is reported as subscribed whatever its trial
C10_OneStandingAtATime ==
    /\ ~(trialInfo.isTrial /\ subscription.isActive)
    /\ ~(trialInfo.trialEnded /\ (trialInfo.isTrial \/ subscription.isActive))
    /\ trialInfo.hasSubscription = subscription.isActive
    /\ (sbLast.outcome = "set" /\ CheckedDoc.subscriptionActive /\ ~CheckedSubEnd.isNull)
           => (subscription.isActive /\ ~trialInfo.isTrial /\ ~trialInfo.trialEnded)

\* C10 witness: the second status check to finish has set the state of an
\* account with an active subscription and a trial that has not expired
C10_Witness ==
    /\ sbLast.outcome = "set" /\ sbLast.ev = 2
    /\ CheckedDoc.subscriptionActive /\ ~CheckedSubEnd.isNull
    /\ ~CheckedTrialEnd.isNull /\ CheckedTrialEnd.time > now
    /\ subscription.isActive

\* C4: an auth callback for a user whose record is absent issues, like the
\* callback with no user, navigation requests to the login path only
C4_MissingRecordOnlyLogin ==
    \A r \in navRequests :
        (r.uid = NoUser \/ ~users[r.uid].exists) => r.to = LoginPath

\* C5: when the dashboard fetch that finished last failed, loading is
\* cleared and the data shown is the default data
C5_FailureShowsDefaults ==
    dashLast.outcome \in {"error:getDoc", "error:getDocs"} =>
        /\ ~loading
        /\ reviews = <<>>
        /\ stats = InitialStats

\* Math.round of the exact quotient a / b (a >= 0, b > 0): the nearest
\* integer, a half rounded up
RoundedQuotient(a, b) == (2 * a + b) \div (2 * b)

\* C9: in every dashboard state the percentage of each bucket is
\* round(count / totalReviews * 100) of the same stats value, is 0 when
\* totalReviews is 0, and lies in 0..100
C9_PercentageOfTotal ==
    \A index \in 0..4 :
        LET count      == stats.ratingDistribution[index]
            percentage == calculatePercentage(count, stats)
        IN  /\ percentage \in 0..100
            /\ stats.totalReviews = 0 => percentage = 0
            /\ stats.totalReviews > 0 =>
                   percentage = RoundedQuotient(100 * count, stats.totalReviews)

\* the review collection of the dashboard load that finished last
LoadedDocs == users[dashLast.uid].reviews

SumCounts(counts) == counts[0] + counts[1] + counts[2] + counts[3] + counts[4]

\* an integer rating in [1,5]
IsStarRating(rating) == rating.kind = "number" /\ rating.halves \in {2, 4, 6, 8, 10}

\* C6: after a load, the buckets sum to at most totalReviews, with equality
\* exactly when every record's rating is an integer in [1,5]; bucket 5 - r
\* counts the records rated r, so a record rated r in 1..5 adds one to that
\* bucket alone and any other record adds to none
C6_RatingDistribution ==
    dashLast.outcome = "loaded" =>
        /\ SumCounts(stats.ratingDistribution) <= stats.totalReviews
        /\ (SumCounts(stats.ratingDistribution) = stats.totalReviews)
               <=> (\A i \in 1..Len(LoadedDocs) : IsStarRating(LoadedDocs[i].rating))
        /\ \A index \in 0..4 :
               stats.ratingDistribution[index] =
                   Cardinality({i \in 1..Len(LoadedDocs) :
                                   LoadedDocs[i].rating = Rating((5 - index) * 2)})

\* C6 witness: a load of three records rated 5, 4.5 and one without a usable
\* star rating: one bucket incremented, the sum below the total
C6_Witness ==
    /\ dashLast.outcome = "loaded"
    /\ Len(LoadedDocs) = 3
    /\ LoadedDocs[1].rating = Rating(10)
    /\ LoadedDocs[2].rating = Rating(9)
    /\ LoadedDocs[3].rating \in {MissingRating, Rating(0), Rating(12)}
    /\ stats.ratingDistribution[0] = 1
    /\ SumCounts(stats.ratingDistribution) = 1
    /\ stats.totalReviews = 3

\* a / b (a >= 0, b > 0) to one decimal, in tenths, a half rounded up
NearestTenth(a, b) == (20 * a + b) \div (2 * b)

RECURSIVE SumOfRatings(_)
\* the sum of the normalized ratings of a review list, in half stars
SumOfRatings(list) ==
    IF list = <<>> THEN 0
    ELSE list[Len(list)].rating + SumOfRatings(SubSeq(list, 1, Len(list) - 1))

\* C7: after a load, averageRating is the sum of the normalized ratings over
\* the record count, to one decimal, and 0 for an empty collection; a
\* missing rating counts as 0
C7_AverageOfNormalizedRatings ==
    dashLast.outcome = "loaded" =>
        stats.averageRating =
            IF Len(reviews) > 0
            THEN Num(NearestTenth(SumOfRatings(reviews), 2 * Len(reviews)))
            ELSE Num(0)

\* C8: after a load, the stored list holds each normalized record of the
\* collection exactly once, newest first, a record without createdAt placed
\* as timestamp 0; timestamps 100, 300, 200 come out as 300, 200, 100
C8_SortedPermutation ==
    dashLast.outcome = "loaded" =>
        /\ Len(reviews) = Len(LoadedDocs)
        /\ \A i \in 1..Len(LoadedDocs) :
               Cardinality({j \in 1..Len(reviews) :
                   /\ reviews[j].id = LoadedDocs[i].id
                   /\ reviews[j].seconds = IF LoadedDocs[i].createdAt.present
                                           THEN LoadedDocs[i].createdAt.seconds ELSE 0
                   /\ reviews[j].rating = IF LoadedDocs[i].rating.kind = "missing"
                                          THEN 0 ELSE LoadedDocs[i].rating.halves}) = 1
        /\ \A j \in 1..Len(reviews) : \A k \in 1..Len(reviews) :
               j < k => reviews[j].seconds >= reviews[k].seconds
        /\ [i \in 1..Len(LoadedDocs) |-> LoadedDocs[i].createdAt] =
               <<CreatedAt(100), CreatedAt(300), CreatedAt(200)>>
           => [j \in 1..Len(reviews) |-> reviews[j].seconds] = <<300, 200, 100>>

\* C8 witness: a load of records created at 100, 300, 200 stored as 300, 200, 100
C8_Witness ==
    /\ dashLast.outcome = "loaded"
    /\ [i \in 1..Len(LoadedDocs) |-> LoadedDocs[i].createdAt] =
           <<CreatedAt(100), CreatedAt(300), CreatedAt(200)>>
    /\ [j \in 1..Len(reviews) |-> reviews[j].id] = <<2, 3, 1>>

\* the same instant in the other representation: a store Timestamp of whole
\* seconds as a plain {seconds} object, and the reverse
OtherRepresentation(field) ==
    IF field.kind = "timestamp" THEN RawSeconds(field.seconds)
    ELSE IF field.kind = "raw" THEN Timestamp(field.seconds, 0)
    ELSE field

\* the account with both end dates in the other representation
TwinOf(userDoc) ==
    [userDoc EXCEPT !.trialEndDate        = OtherRepresentation(@),
                    !.subscriptionEndDate = OtherRepresentation(@)]

\* both end dates are instants of whole seconds
WholeSeconds(userDoc) ==
    userDoc.trialEndDate.nanoseconds = 0 /\ userDoc.subscriptionEndDate.nanoseconds = 0

\* C11: for an account whose end dates are whole-second instants, the state
\* the status check sets and the decision the guard takes are those of the
\* same account with the end dates in the other representation, and the
\* guard raises no error
C11_BothRepresentations ==
    /\ (sbLast.outcome = "set" /\ WholeSeconds(CheckedDoc)) =>
           /\ trialInfo = DeriveStatus(TwinOf(CheckedDoc), now).trialInfo
           /\ subscription = DeriveStatus(TwinOf(CheckedDoc), now).subscription
    /\ (guardLast.outcome \in {"granted", "denied", "throws"}
            /\ users[guardLast.uid].exists /\ WholeSeconds(users[guardLast.uid])) =>
           /\ guardLast.outcome # "throws"
           /\ guardLast.outcome = checkSubscription(TwinOf(users[guardLast.uid]), now)

\* what a finished load of uid's reviews puts on the dashboard
LoadedFor(uid) ==
    /\ reviews = sortReviews(reviewsDataOf(users[uid].reviews))
    /\ stats.totalReviews = Len(users[uid].reviews)
    /\ stats.ratingDistribution = ratingCountsOf(users[uid].reviews)

\* what a finished status check of uid puts on the sidebar
StatusFor(uid) ==
    /\ trialInfo = DeriveStatus(users[uid], now).trialInfo
    /\ subscription = DeriveStatus(users[uid], now).subscription

\* C12: nothing cancels a handler: the dashboard's reviews and statistics are
\* always those of the load that finished last, and the sidebar's state that
\* of the status check that finished last, whichever auth event started it,
\* also when a later auth event for another user has been delivered since
C12_LastFinishedHandlerWins ==
    /\ dashLast.outcome = "loaded" => LoadedFor(dashLast.uid)
    /\ sbLast.outcome = "set" => StatusFor(sbLast.uid)

\* both handlers of the second auth event (user u2) finished first, the
\* first event's handlers (user u1) finished after them, and both screens
\* describe u1 while the signed-in user is u2
C12_Witness ==
    /\ authEvents = 2 /\ currentUser = "u2"
    /\ dashPending = {} /\ sbPending = {}
    /\ dashLast = Ended(Handler(1, "u1"), "loaded")
    /\ sbLast = Ended(Handler(1, "u1"), "set")
    /\ LoadedFor("u1") /\ ~LoadedFor("u2")
    /\ StatusFor("u1") /\ ~StatusFor("u2")
    /\ businessName = "Bolt"

\* C13: the loading indicator is on from mount for as long as no handler has
\* finished, once off it is never switched on again, and whenever a handler
\* for a signed-in user is in flight it is eventually off, whether the
\* fetches succeed, fail or find no record
C13_LoadingUntilFirstResolution ==
    /\ [](dashLast.outcome = "none" => loading)
    /\ [][~loading => ~loading']_vars
    /\ (dashPending # {}) ~> ~loading

\* a failed fetch has switched the indicator off, and a later sign-in whose
\* load is still in flight has not switched it on again
C13_Witness ==
    /\ ~loading
    /\ dashLast.outcome = "error:getDocs"
    /\ \E h \in dashPending : h.ev > dashLast.ev

\* C14: on a Settings sub-entry path the sub-entry list is rendered, and it
\* is still rendered after a click on "Settings"; on any other path the list
\* is rendered exactly when settingsOpen is true, and a click on "Settings"
\* is possible and every such click inverts settingsOpen
C14_SettingsList ==
    /\ shouldKeepSettingsOpen(pathname) =>
           /\ subLinksRendered(SettingsLink, settingsOpen, pathname)
           /\ ~ENABLED (/\ ClickSettings(SettingsLink)
                        /\ ~subLinksRendered(SettingsLink, settingsOpen', pathname'))
    /\ ~shouldKeepSettingsOpen(pathname) =>
           /\ subLinksRendered(SettingsLink, settingsOpen, pathname) <=> settingsOpen
           /\ ENABLED (ClickSettings(SettingsLink) /\ settingsOpen' = ~settingsOpen)
           /\ ~ENABLED (ClickSettings(SettingsLink) /\ settingsOpen' = settingsOpen)

\* the list expanded by a click while the location has never been a
\* Settings path
C14_Witness ==
    /\ authEvents = 0
    /\ ~shouldKeepSettingsOpen(pathname)
    /\ settingsOpen
    /\ subLinksRendered(SettingsLink, settingsOpen, pathname)

\* C15: whenever the sidebar's state says trial, its days left are at least
\* one, so the trial status block reads "N days left" or "Last day" and
\* never "Ends today"
C15_TrialHasDaysLeft ==
    /\ trialInfo.isTrial =>
           /\ trialInfo.daysLeft >= 1
           /\ trialText(trialInfo.daysLeft) \in {"N days left", "Last day"}
    /\ trialStatusShown(trialInfo, subscription) =>
           trialText(trialInfo.daysLeft) # "Ends today"

\* a trial with one millisecond left: shown as the last day
C15_Witness ==
    /\ sbLast.outcome = "set"
    /\ trialInfo.isTrial
    /\ CheckedTrialEnd.time - now = 1
    /\ trialInfo.daysLeft = 1
    /\ trialStatusShown(trialInfo, subscription)
    /\ trialText(trialInfo.daysLeft) = "Last day"

============================================================================
